---- MODULE Spec2Model ----
(***************************************************************************)
(* Session state machines of the financial calculator.                     *)
(*                                                                         *)
(*   calculator.py         repl()            line-prompt front end         *)
(*   calculator_curses.py  accept_and_eval() panel front end               *)
(*                                                                         *)
(* A submitted line is a sequence of tokens (the text after strip(), split *)
(* at the places where the regular expressions of the handlers allow       *)
(* white space).  Values are Python numbers: ints and floats, the floats   *)
(* kept as exact fractions n/d, and the built-in function objects the      *)
(* evaluation environment holds.  Dictionaries are functions, lists are    *)
(* sequences.  Every list and dictionary of the two programs has a single  *)
(* owner at every moment (copy() makes a fresh object; a popped frame      *)
(* leaves the stack when it becomes current), so values stand for objects. *)
(***************************************************************************)
EXTENDS Integers, Sequences, FiniteSets, TLC

VARIABLES
    mode,               \* which program runs: "repl" or "panel"
    pc,                 \* repl: "prompt" (in the read loop) or "done"
    user_vars,          \* repl: calculator.py:138
    screen_stack,       \* repl: calculator.py:140
    session_history,    \* repl: calculator.py:141
    in_case,            \* repl: calculator.py:142
    ppc,                \* panel: "loop", "exited" (break) or "crashed"
    p_user_vars,        \* panel: calculator_curses.py:121
    p_case_stack,       \* panel: calculator_curses.py:122
    p_session_history,  \* panel: calculator_curses.py:123
    lastLine,           \* observer: the line processed by the last step
    nLines,             \* observer: number of lines submitted so far
    nCase,              \* observer: number of case lines processed
    nEndOk,             \* observer: number of endcase lines that popped
    opened,             \* observer: the scopes open at the case lines
    shot                \* the one-shot run: calculator.py:266-275

vars == <<mode, pc, user_vars, screen_stack, session_history, in_case,
          ppc, p_user_vars, p_case_stack, p_session_history,
          lastLine, nLines, nCase, nEndOk, opened, shot>>

replVars == <<pc, user_vars, screen_stack, session_history, in_case>>
panelVars == <<ppc, p_user_vars, p_case_stack, p_session_history>>

----------------------------------------------------------------------------
(* Bounds *)

\* number of lines submitted in one session
MaxLines == 4

----------------------------------------------------------------------------
(* Lines and tokens *)

\* the lines a session submits
Lines ==
    { <<>>, <<"quit">>, <<"EXIT">>,
      <<"help">>, <<"cls">>, <<"case">>, <<"endcase">>,
      <<"x", "=", "1">>,
      <<"x", "=", "x", "+", "1">>,
      <<"y", "=", "50", "%">>,
      <<"y", "=", "1", "/", "0">>,
      <<"y", "=", "sqrt">>,
      <<"x">>, <<"sqrt">>,
      <<"x", "/", "2">>,
      <<"1", "/", "0">>,
      <<"1", "+">> }

\* what the prompt delivers on end of input or an interrupt
EOF == <<"<EOF>">>

\* str.lower() on the words of the lines
Lower(t) ==
    CASE t = "EXIT" -> "exit"
      [] t = "F_P" -> "f_p"
      [] t = "P_F" -> "p_f"
      [] t = "P_A" -> "p_a"
      [] t = "A_P" -> "a_p"
      [] t = "F_A" -> "f_a"
      [] t = "A_F" -> "a_f"
      [] t = "A_G" -> "a_g"
      [] t = "P_G" -> "p_g"
      [] t = "X_Y" -> "x_y"
      [] OTHER -> t

\* calculator.py:93-102, the keys of FACTOR_FUNCS
FactorNames == {"F_P", "P_F", "P_A", "A_P", "F_A", "A_F", "A_G", "P_G"}

\* [A-Za-z]+_[A-Za-z]+, the words of that shape the inputs use
FactorShaped(t) == t \in FactorNames \cup {"p_f", "a_p", "X_Y"}

\* [a-zA-Z_]\w*
IsIdent(t) ==
    \/ t \in {"x", "y", "sqrt", "quit", "EXIT", "help", "cls", "case",
              "endcase"}
    \/ FactorShaped(t)

\* \d+(?:\.\d+)?
IsNumLit(t) == t \in {"0", "1", "2", "3", "5", "10", "50", "0.5"}

----------------------------------------------------------------------------
(* Values *)

IntVal(k) == [ty |-> "int", n |-> k, d |-> 1]
FloatVal(a, b) == [ty |-> "float", n |-> a, d |-> b]
\* the function object math.sqrt
SqrtObj == [ty |-> "builtin", n |-> 0, d |-> 1]

IsNumber(v) == v.ty \in {"int", "float"}

RECURSIVE Gcd(_, _)
Gcd(a, b) == IF b = 0 THEN a ELSE Gcd(b, a % b)

Abs(a) == IF a < 0 THEN -a ELSE a

\* the float a/b in lowest terms, b # 0
Frac(a, b) ==
    LET g == Gcd(Abs(a), Abs(b))
        sg == IF b < 0 THEN -1 ELSE 1
    IN  IF a = 0 THEN FloatVal(0, 1)
        ELSE FloatVal(sg * (a \div g), Abs(b) \div g)

\* float('inf')
Inf == FloatVal(1, 0)

\* float(v) of a number
ToFloat(v) == FloatVal(v.n, v.d)

\* value of a numeric literal of the source text
NumLit(t) ==
    CASE t = "0" -> IntVal(0)
      [] t = "1" -> IntVal(1)
      [] t = "2" -> IntVal(2)
      [] t = "3" -> IntVal(3)
      [] t = "5" -> IntVal(5)
      [] t = "10" -> IntVal(10)
      [] t = "50" -> IntVal(50)
      [] t = "0.5" -> FloatVal(1, 2)

\* number of decimal places of the terminating decimal with denominator d
RECURSIVE Places(_, _)
Places(d, pow10) == IF pow10 % d = 0 THEN 0 ELSE 1 + Places(d, pow10 * 10)

RECURSIVE Pow10(_)
Pow10(k) == IF k = 0 THEN 1 ELSE 10 * Pow10(k - 1)

\* the decimal digits of m, at least k of them (leading zeros)
RECURSIVE Digits(_, _)
Digits(m, k) ==
    IF m < 10 /\ k <= 1 THEN ToString(m)
    ELSE Digits(m \div 10, k - 1) \o ToString(m % 10)

\* d without its factors 2 and 5: 1 iff a fraction over d terminates
RECURSIVE Strip25(_)
Strip25(d) ==
    IF d % 2 = 0 THEN Strip25(d \div 2)
    ELSE IF d % 5 = 0 THEN Strip25(d \div 5)
    ELSE d

\* the first k decimal places of r/d, r < d, by long division
RECURSIVE LongDiv(_, _, _)
LongDiv(r, d, k) ==
    IF k = 0 THEN ""
    ELSE ToString((r * 10) \div d) \o LongDiv((r * 10) % d, d, k - 1)

\* decimal places shown of a float whose expansion does not terminate
ShownPlaces == 6

\* str(v) of Python, as the f-strings of the handlers render a value; a
\* float with no finite decimal expansion is shown by its leading places
PyStr(v) ==
    CASE v.ty = "int" -> ToString(v.n)
      [] v.ty = "float" /\ v.d = 0 -> "inf"
      [] v.ty = "float" /\ v.d # 0 /\ Strip25(v.d) # 1 ->
            LET a == Abs(v.n)
            IN  (IF v.n < 0 THEN "-" ELSE "") \o ToString(a \div v.d) \o "."
                \o LongDiv(a % v.d, v.d, ShownPlaces) \o "..."
      [] v.ty = "float" /\ v.d # 0 /\ Strip25(v.d) = 1 ->
            LET a == Abs(v.n)
                k == Places(v.d, 1)
                r == ((a % v.d) * Pow10(k)) \div v.d
            IN  (IF v.n < 0 THEN "-" ELSE "") \o ToString(a \div v.d) \o "."
                \o (IF k = 0 THEN "0" ELSE Digits(r, k))
      [] v.ty = "function" -> "<function>"
      [] OTHER -> "<built-in function sqrt>"

----------------------------------------------------------------------------
(* Expression evaluation: re.sub of the percent literals, then eval *)

\* str(float(m.group(1))/100), read back by eval as a float literal
PctLexeme(t) ==
    LET f == Frac(NumLit(t).n, NumLit(t).d * 100)
    IN  [k |-> "num", s |-> PyStr(f), v |-> f]

\* Lexeme reading every numeric literal as a percentage
Lexeme_AsPercent(t) ==
    IF IsNumLit(t) THEN PctLexeme(t)
    ELSE IF IsIdent(t) THEN [k |-> "id", s |-> t, v |-> IntVal(0)]
    ELSE [k |-> "op", s |-> t, v |-> IntVal(0)]

\* a token of the text as eval reads it
Lexeme(t) ==
    IF IsNumLit(t) THEN [k |-> "num", s |-> t, v |-> NumLit(t)]
    ELSE IF IsIdent(t) THEN [k |-> "id", s |-> t, v |-> IntVal(0)]
    ELSE [k |-> "op", s |-> t, v |-> IntVal(0)]

\* re.sub(r'(\d+(?:\.\d+)?)\s*%', ..., text), then the lexer of eval
RECURSIVE PercentSub(_)
PercentSub(toks) ==
    IF toks = <<>> THEN <<>>
    ELSE IF Len(toks) >= 2 /\ IsNumLit(toks[1]) /\ toks[2] = "%"
         THEN <<PctLexeme(toks[1])>> \o PercentSub(SubSeq(toks, 3, Len(toks)))
         ELSE <<Lexeme(toks[1])>> \o PercentSub(Tail(toks))

Ok(v) == [ok |-> TRUE, val |-> v, err |-> ""]
Raise(msg) == [ok |-> FALSE, val |-> IntVal(0), err |-> msg]

----------------------------------------------------------------------------
(* The factor library, on exact fractions *)

QAdd(p, q) == Frac(p.n * q.d + q.n * p.d, p.d * q.d)
QSub(p, q) == Frac(p.n * q.d - q.n * p.d, p.d * q.d)
\* the product, cancelling across before multiplying
QMul(p, q) ==
    LET g == Gcd(Abs(p.n), q.d)
        h == Gcd(Abs(q.n), p.d)
    IN  Frac((p.n \div g) * (q.n \div h), (p.d \div h) * (q.d \div g))
\* p / q of floats; q = 0 raises
QDiv(p, q) ==
    IF q.n = 0 THEN Raise("float division by zero")
    ELSE Ok(QMul(p, Frac(q.d, q.n)))

One == FloatVal(1, 1)

RECURSIVE IntPow(_, _)
IntPow(b, k) == IF k = 0 THEN 1 ELSE b * IntPow(b, k - 1)

\* calculator.py:52-54, (1.0 + i) ** n for an int n of either sign
Pow1p(i, n) ==
    LET b == QAdd(One, i)
    IN  IF n >= 0 THEN Ok(Frac(IntPow(b.n, n), IntPow(b.d, n)))
        ELSE IF b.n = 0
        THEN Raise("0.0 cannot be raised to a negative power")
        ELSE Ok(Frac(IntPow(b.d, -n), IntPow(b.n, -n)))

\* calculator.py:56-57
F_P(i, n) == Pow1p(i, n)

\* calculator.py:59-60
P_F(i, n) ==
    LET x == Pow1p(i, n)
    IN  IF ~x.ok THEN x
        ELSE QDiv(One, x.val)

\* P_A with the zero-rate branch left out
P_A_NoLimit(i, n) ==
    LET x == Pow1p(i, -n)
    IN  IF ~x.ok THEN x
        ELSE QDiv(QSub(One, x.val), i)

\* calculator.py:62-65
P_A(i, n) ==
    IF i.n = 0 THEN Ok(FloatVal(n, 1))
    ELSE LET x == Pow1p(i, -n)
         IN  IF ~x.ok THEN x
             ELSE QDiv(QSub(One, x.val), i)

\* A_P dividing by x where the source divides by x - 1.0
A_P_WrongDivisor(i, n) ==
    IF i.n = 0 THEN IF n # 0 THEN Ok(Frac(1, n)) ELSE Ok(Inf)
    ELSE LET x == Pow1p(i, n)
         IN  IF ~x.ok THEN x
             ELSE QDiv(QMul(i, x.val), x.val)

\* calculator.py:67-71
A_P(i, n) ==
    IF i.n = 0 THEN IF n # 0 THEN Ok(Frac(1, n)) ELSE Ok(Inf)
    ELSE LET x == Pow1p(i, n)
         IN  IF ~x.ok THEN x
             ELSE QDiv(QMul(i, x.val), QSub(x.val, One))

\* calculator.py:73-76
F_A(i, n) ==
    IF i.n = 0 THEN Ok(FloatVal(n, 1))
    ELSE LET x == Pow1p(i, n)
         IN  IF ~x.ok THEN x
             ELSE QDiv(QSub(x.val, One), i)

\* calculator.py:78-81
A_F(i, n) ==
    IF i.n = 0 THEN IF n # 0 THEN Ok(Frac(1, n)) ELSE Ok(Inf)
    ELSE LET x == Pow1p(i, n)
         IN  IF ~x.ok THEN x
             ELSE QDiv(i, QSub(x.val, One))

\* calculator.py:83-87
A_G(i, n) ==
    IF i.n = 0 THEN Ok(Frac(n - 1, 2))
    ELSE LET x == Pow1p(i, n)
         IN  IF ~x.ok THEN x
             ELSE LET a == QDiv(One, i)
                      b == QDiv(FloatVal(n, 1), QSub(x.val, One))
                  IN  IF ~a.ok THEN a
                      ELSE IF ~b.ok THEN b
                      ELSE Ok(QSub(a.val, b.val))

\* calculator.py:89-91
P_G(i, n) ==
    LET a == A_G(i, n)
        b == P_A(i, n)
    IN  IF ~a.ok THEN a
        ELSE IF ~b.ok THEN b
        ELSE Ok(QMul(a.val, b.val))

\* FACTOR_FUNCS[name](i, n)
FACTOR_FUNCS(name, i, n) ==
    CASE name = "F_P" -> F_P(i, n)
      [] name = "P_F" -> P_F(i, n)
      [] name = "P_A" -> P_A(i, n)
      [] name = "A_P" -> A_P(i, n)
      [] name = "F_A" -> F_A(i, n)
      [] name = "A_F" -> A_F(i, n)
      [] name = "A_G" -> A_G(i, n)
      [] name = "P_G" -> P_G(i, n)

\* the function object FACTOR_FUNCS[name]
FactorObj(name) == [ty |-> "function", n |-> 0, d |-> 1, name |-> name]

----------------------------------------------------------------------------
(* The evaluation environment and eval *)

\* the entries of safe_env that do not come from user_vars
Builtins ==
    [s \in {"sqrt"} \cup FactorNames |->
        IF s = "sqrt" THEN SqrtObj ELSE FactorObj(s)]

\* safe_env: the factor functions, math and its names, abs, then
\* safe_env.update(user_vars)
SafeEnv(uv) ==
    [s \in (DOMAIN Builtins) \cup (DOMAIN uv) |->
        IF s \in DOMAIN uv THEN uv[s] ELSE Builtins[s]]

\* a name or a literal, looked up in the globals of eval
Operand(lx, env) ==
    IF lx.k = "num" THEN Ok(lx.v)
    ELSE IF lx.s \in DOMAIN env THEN Ok(env[lx.s])
    ELSE Raise("name '" \o lx.s \o "' is not defined")

TypeName(v) ==
    CASE v.ty = "int" -> "int"
      [] v.ty = "float" -> "float"
      [] v.ty = "function" -> "function"
      [] OTHER -> "builtin_function_or_method"

\* f(a, b) of eval: a factor function runs on float(a) and the int b,
\* math.sqrt refuses two arguments, a number is not callable
Call(f, a, b) ==
    IF IsNumber(f) THEN Raise("'" \o TypeName(f) \o "' object is not callable")
    ELSE IF f.ty = "builtin"
    THEN Raise("math.sqrt() takes exactly one argument (2 given)")
    ELSE IF ~(IsNumber(a) /\ IsNumber(b))
    THEN Raise("unsupported operand type(s)")
    ELSE FACTOR_FUNCS(f.name, ToFloat(a), b.n \div b.d)

BinOp(op, a, b) ==
    IF ~(IsNumber(a) /\ IsNumber(b))
    THEN Raise("unsupported operand type(s) for " \o op \o ": '"
               \o TypeName(a) \o "' and '" \o TypeName(b) \o "'")
    ELSE IF op = "+"
    THEN IF a.ty = "int" /\ b.ty = "int"
         THEN Ok(IntVal(a.n + b.n))
         ELSE Ok(Frac(a.n * b.d + b.n * a.d, a.d * b.d))
    ELSE IF b.n = 0
         THEN Raise("division by zero")
         ELSE Ok(Frac(a.n * b.d, a.d * b.n))

\* eval(text, safe_env) on the expressions of the lines: a single operand,
\* one binary operation or one call with two arguments; the text is compiled
\* first, then the operands are evaluated left to right, then the operator
\* or the call is applied
PyEval(lxs, env) ==
    IF Len(lxs) = 1 /\ lxs[1].k # "op"
    THEN Operand(lxs[1], env)
    ELSE IF /\ Len(lxs) = 6
            /\ lxs[1].k = "id" /\ lxs[3].k # "op" /\ lxs[5].k # "op"
            /\ lxs[2].s = "(" /\ lxs[4].s = "," /\ lxs[6].s = ")"
    THEN LET f == Operand(lxs[1], env)
             a == Operand(lxs[3], env)
             b == Operand(lxs[5], env)
         IN  IF ~f.ok THEN f
             ELSE IF ~a.ok THEN a
             ELSE IF ~b.ok THEN b
             ELSE Call(f.val, a.val, b.val)
    ELSE IF /\ Len(lxs) = 3
            /\ lxs[1].k # "op" /\ lxs[3].k # "op"
            /\ lxs[2].s \in {"+", "/"}
    THEN LET a == Operand(lxs[1], env)
             b == Operand(lxs[3], env)
         IN  IF ~a.ok THEN a
             ELSE IF ~b.ok THEN b
             ELSE BinOp(lxs[2].s, a.val, b.val)
    ELSE Raise("invalid syntax (<string>, line 1)")

\* calculator.py:211-223 and 245-257: build safe_env, rewrite the percent
\* literals, eval
Evaluate(toks, uv) == PyEval(PercentSub(toks), SafeEnv(uv))

----------------------------------------------------------------------------
(* Classification of a line: the chain of tests both front ends run *)

\* line.lower(), as far as the comparisons with the command words need it
LineLower(line) ==
    IF line = <<>> THEN ""
    ELSE IF Len(line) = 1 THEN Lower(line[1])
    ELSE "<text>"

\* re.match(r'^\s*([a-zA-Z_]\w*)\s*=\s*(.+)$', line)
AssignMatch(line) == Len(line) >= 3 /\ IsIdent(line[1]) /\ line[2] = "="

\* re.match(r'^\s*([a-zA-Z_]\w*)\s*$', line)
VarPrintMatch(line) == Len(line) = 1 /\ IsIdent(line[1])

\* Classify with a blank line not among the terminating lines
Classify_BlankIsExpr(line) ==
    IF LineLower(line) \in {"quit", "exit"} THEN "terminate"
    ELSE IF LineLower(line) = "help" THEN "help"
    ELSE IF LineLower(line) = "cls" THEN "cls"
    ELSE IF LineLower(line) = "case" THEN "case"
    ELSE IF LineLower(line) = "endcase" THEN "endcase"
    ELSE IF AssignMatch(line) THEN "assign"
    ELSE IF VarPrintMatch(line) THEN "varprint"
    ELSE "expr"

\* calculator.py:171-244, the order of the tests of the read loop
Classify(line) ==
    IF LineLower(line) \in {"", "quit", "exit"} THEN "terminate"
    ELSE IF LineLower(line) = "help" THEN "help"
    ELSE IF LineLower(line) = "cls" THEN "cls"
    ELSE IF LineLower(line) = "case" THEN "case"
    ELSE IF LineLower(line) = "endcase" THEN "endcase"
    ELSE IF AssignMatch(line) THEN "assign"
    ELSE IF VarPrintMatch(line) THEN "varprint"
    ELSE "expr"

----------------------------------------------------------------------------
(* Transcript entries of the line-prompt front end: (input, output) *)

\* Fore.<colour> + Style.BRIGHT + text + Style.RESET_ALL; the text is kept
\* as the pieces the f-string joins
Out(colour, text) == [colour |-> colour, text |-> text]
\* None
NoOutput == [colour |-> "None", text |-> <<>>]

Entry(inp, outp) == [inp |-> inp, outp |-> outp]

HelpOut == Out("CYAN", <<"HELP">>)
CaseStartedOut ==
    Out("MAGENTA", <<"Case started. Variables now local to this case.">>)
CaseEndedOut == Out("MAGENTA", <<"Case ended. Previous variables restored.">>)
NoCaseOut == Out("RED", <<"No case to end.">>)

\* the state the handlers of repl() work on
ReplState == [uv |-> user_vars, stack |-> screen_stack,
              hist |-> session_history, ic |-> in_case]

\* d[k] = v on a dict
DictSet(d, k, v) ==
    [s \in (DOMAIN d) \cup {k} |-> IF s = k THEN v ELSE d[s]]

EmptyDict == [s \in {} |-> IntVal(0)]

\* calculator.py:174-177
DoHelp(line, S) ==
    [S EXCEPT !.hist = Append(@, Entry(line, HelpOut))]

\* DoCls clearing the variables with the screen
DoCls_ClearAll(line, S) ==
    [S EXCEPT !.hist = <<>>, !.uv = EmptyDict]

\* calculator.py:178-181
DoCls(line, S) ==
    [S EXCEPT !.hist = <<>>]

\* DoCase without the reset of user_vars: the new scope inherits
DoCase_Inherit(line, S) ==
    [uv |-> S.uv,
     stack |-> Append(S.stack, <<S.uv, S.hist>>),
     hist |-> <<Entry(line, CaseStartedOut)>>,
     ic |-> TRUE]

\* calculator.py:182-191
DoCase(line, S) ==
    [uv |-> EmptyDict,
     stack |-> Append(S.stack, <<S.uv, S.hist>>),
     hist |-> <<Entry(line, CaseStartedOut)>>,
     ic |-> TRUE]

\* DoEndcase restoring the transcript but not the variables
DoEndcase_KeepVars(line, S) ==
    IF S.stack # <<>>
    THEN LET top == S.stack[Len(S.stack)]
         IN  [uv |-> S.uv,
              stack |-> SubSeq(S.stack, 1, Len(S.stack) - 1),
              hist |-> Append(top[2], Entry(line, CaseEndedOut)),
              ic |-> FALSE]
    ELSE [S EXCEPT !.hist = Append(@, Entry(line, NoCaseOut))]

\* DoEndcase reading the top frame without popping it
DoEndcase_NoPop(line, S) ==
    IF S.stack # <<>>
    THEN LET top == S.stack[Len(S.stack)]
         IN  [uv |-> top[1],
              stack |-> S.stack,
              hist |-> Append(top[2], Entry(line, CaseEndedOut)),
              ic |-> FALSE]
    ELSE [S EXCEPT !.hist = Append(@, Entry(line, NoCaseOut))]

\* calculator.py:192-204
DoEndcase(line, S) ==
    IF S.stack # <<>>
    THEN LET top == S.stack[Len(S.stack)]
         IN  [uv |-> top[1],
              stack |-> SubSeq(S.stack, 1, Len(S.stack) - 1),
              hist |-> Append(top[2], Entry(line, CaseEndedOut)),
              ic |-> FALSE]
    ELSE [S EXCEPT !.hist = Append(@, Entry(line, NoCaseOut))]

\* DoAssign writing through to the frame case pushed, as it would if the
\* frame shared the dictionary of the scope it was taken from
DoAssign_Aliased(line, S) ==
    LET var_name == line[1]
        var_value_expr == SubSeq(line, 3, Len(line))
        r == Evaluate(var_value_expr, S.uv)
        top == S.stack[Len(S.stack)]
    IN  IF r.ok
        THEN [S EXCEPT !.uv = DictSet(@, var_name, r.val),
                       !.hist = Append(@, Entry(line, NoOutput)),
                       !.stack = IF @ = <<>> THEN @
                                 ELSE [@ EXCEPT ![Len(@)] =
                                          <<DictSet(top[1], var_name, r.val),
                                            top[2]>>]]
        ELSE [S EXCEPT !.hist = Append(@, Entry(line,
                           Out("RED", <<"Error in assignment: ", r.err>>)))]

\* DoAssign taking "silent on success" as "no entry"
DoAssign_NoEntry(line, S) ==
    LET var_name == line[1]
        var_value_expr == SubSeq(line, 3, Len(line))
        r == Evaluate(var_value_expr, S.uv)
    IN  IF r.ok
        THEN [S EXCEPT !.uv = DictSet(@, var_name, r.val)]
        ELSE [S EXCEPT !.hist = Append(@, Entry(line,
                           Out("RED", <<"Error in assignment: ", r.err>>)))]

\* calculator.py:206-230
DoAssign(line, S) ==
    LET var_name == line[1]
        var_value_expr == SubSeq(line, 3, Len(line))
        r == Evaluate(var_value_expr, S.uv)
    IN  IF r.ok
        THEN [S EXCEPT !.uv = DictSet(@, var_name, r.val),
                       !.hist = Append(@, Entry(line, NoOutput))]
        ELSE [S EXCEPT !.hist = Append(@, Entry(line,
                           Out("RED", <<"Error in assignment: ", r.err>>)))]

\* DoVarPrint rendering the value as float(value)
DoVarPrint_AsFloat(line, S) ==
    LET var_name == line[1]
    IN  IF var_name \in DOMAIN S.uv
        THEN [S EXCEPT !.hist = Append(@, Entry(line,
                 Out("CYAN", <<var_name, " = ",
                               PyStr(ToFloat(S.uv[var_name]))>>)))]
        ELSE [S EXCEPT !.hist = Append(@, Entry(line,
                 Out("RED", <<"Variable '", var_name,
                              "' not found in current scope.">>)))]

\* calculator.py:232-243
DoVarPrint(line, S) ==
    LET var_name == line[1]
    IN  IF var_name \in DOMAIN S.uv
        THEN [S EXCEPT !.hist = Append(@, Entry(line,
                 Out("CYAN", <<var_name, " = ", PyStr(S.uv[var_name])>>)))]
        ELSE [S EXCEPT !.hist = Append(@, Entry(line,
                 Out("RED", <<"Variable '", var_name,
                              "' not found in current scope.">>)))]

\* calculator.py:244-264
DoExpr(line, S) ==
    LET r == Evaluate(line, S.uv)
    IN  IF r.ok
        THEN [S EXCEPT !.hist = Append(@, Entry(line,
                 Out("GREEN", <<"Result: ", PyStr(r.val)>>)))]
        ELSE [S EXCEPT !.hist = Append(@, Entry(line,
                 Out("RED", <<"Error: ", r.err>>)))]

----------------------------------------------------------------------------
(* Panel front end: accept_and_eval of calculator_curses.py *)

\* (input, output, is_error); an output of None is the empty text
PEntry(inp, outp, is_err) == [inp |-> inp, outp |-> outp, is_err |-> is_err]

\* calculator_curses.py:89-97
PanelEvaluate(toks, uv) == PyEval(PercentSub(toks), SafeEnv(uv))

\* calculator_curses.py:236-284, the order of the tests of accept_and_eval
PClassify(cmd) ==
    IF cmd = <<>> THEN "blank"
    ELSE IF LineLower(cmd) \in {"quit", "exit"} THEN "quit"
    ELSE IF LineLower(cmd) = "help" THEN "help"
    ELSE IF LineLower(cmd) = "cls" THEN "cls"
    ELSE IF LineLower(cmd) = "case" THEN "case"
    ELSE IF LineLower(cmd) = "endcase" THEN "endcase"
    ELSE IF AssignMatch(cmd) THEN "assign"
    ELSE IF VarPrintMatch(cmd) THEN "varprint"
    ELSE "expr"

\* the state accept_and_eval works on, and the exception it leaves with
PanelState == [uv |-> p_user_vars, stack |-> p_case_stack,
               hist |-> p_session_history, exc |-> "None"]

\* Any use of session_history inside accept_and_eval before line 259.
\* Line 259 assigns session_history and the function declares no nonlocal,
\* so the name is a local variable of accept_and_eval in its whole body and
\* is unbound when the call starts: reading it (to call append, clear or
\* copy on it) raises UnboundLocalError and the list of curses_repl is left
\* as it is.  entry is what the statement was written to append.
LocalHistoryUse(P, entry) == [P EXCEPT !.exc = "UnboundLocalError"]

\* calculator_curses.py:236-239
PDoBlank(cmd, P) == LocalHistoryUse(P, PEntry(<<>>, <<>>, FALSE))

\* calculator_curses.py:241-242
PDoQuit(cmd, P) == [P EXCEPT !.exc = "SystemExit"]

\* calculator_curses.py:243-245
PDoHelp(cmd, P) == LocalHistoryUse(P, PEntry(cmd, <<"HELP">>, FALSE))

\* calculator_curses.py:246-248
PDoCls(cmd, P) == LocalHistoryUse(P, <<>>)

\* calculator_curses.py:249-253; the argument tuple of case_stack.append is
\* built first and session_history.copy() raises before the push
PDoCase(cmd, P) == LocalHistoryUse(P, <<>>)

\* calculator_curses.py:254-262; line 259 binds the local name only
PDoEndcase(cmd, P) ==
    IF P.stack # <<>>
    THEN LET top == P.stack[Len(P.stack)]
         IN  [P EXCEPT !.uv = top[1],
                       !.stack = SubSeq(P.stack, 1, Len(P.stack) - 1)]
    ELSE LocalHistoryUse(P, PEntry(cmd, <<"No case to end.">>, TRUE))

\* calculator_curses.py:264-274; line 270 has stored the value when line
\* 271 raises, and the handler of line 272 raises again at line 273
PDoAssign(cmd, P) ==
    LET name == cmd[1]
        rhs == SubSeq(cmd, 3, Len(cmd))
        r == PanelEvaluate(rhs, P.uv)
    IN  IF r.ok
        THEN LocalHistoryUse([P EXCEPT !.uv = DictSet(@, name, r.val)],
                             PEntry(cmd, <<>>, FALSE))
        ELSE LocalHistoryUse(P,
                 PEntry(cmd, <<"Error in assignment: ", r.err>>, TRUE))

\* calculator_curses.py:276-283
PDoVarEcho(cmd, P) ==
    LET name == cmd[1]
    IN  IF name \in DOMAIN P.uv
        THEN LocalHistoryUse(P,
                 PEntry(cmd, <<name, " = ", PyStr(P.uv[name])>>, FALSE))
        ELSE LocalHistoryUse(P,
                 PEntry(cmd, <<"Variable '", name,
                               "' not found in current scope.">>, TRUE))

\* calculator_curses.py:285-289; the handler of line 288 raises at line 289
PDoExpr(cmd, P) ==
    LET r == PanelEvaluate(cmd, P.uv)
    IN  IF r.ok
        THEN LocalHistoryUse(P,
                 PEntry(cmd, <<"Result: ", PyStr(r.val)>>, FALSE))
        ELSE LocalHistoryUse(P, PEntry(cmd, <<"Error: ", r.err>>, TRUE))

----------------------------------------------------------------------------
(* The two programs *)

\* what the one-shot run prints: the four values of the success line, or
\* the message of the error line
ShotOut(name, rate, n, val, err) ==
    [name |-> name, rate |-> rate, n |-> n, val |-> val, err |-> err]

NoPrint == ShotOut("", FloatVal(0, 1), 0, FloatVal(0, 1), "")

\* no one-shot run: the script was started without arguments
ShotIdle == [phase |-> "idle", argv |-> <<>>, code |-> 0, out |-> NoPrint]

Init ==
    /\ mode \in {"repl", "panel"}
    /\ pc = "prompt"
    /\ user_vars = EmptyDict
    /\ screen_stack = <<>>
    /\ session_history = <<>>
    /\ in_case = FALSE
    /\ ppc = "loop"
    /\ p_user_vars = EmptyDict
    /\ p_case_stack = <<>>
    /\ p_session_history = <<>>
    /\ lastLine = <<"<none>">>
    /\ nLines = 0
    /\ nCase = 0
    /\ nEndOk = 0
    /\ opened = <<>>
    /\ shot = ShotIdle

\* input() returned line: the prompt of the read loop, calculator.py:165-167
ReplReads(line) ==
    /\ mode = "repl"
    /\ pc = "prompt"
    /\ nLines < MaxLines
    /\ lastLine' = line
    /\ nLines' = nLines + 1
    /\ UNCHANGED <<mode, panelVars, shot>>

\* ReplStore leaving the loop when the handler reported an error
ReplStore_StopOnError(S) ==
    /\ user_vars' = S.uv
    /\ screen_stack' = S.stack
    /\ session_history' = S.hist
    /\ in_case' = S.ic
    /\ pc' = IF S.hist # <<>> /\ S.hist[Len(S.hist)].outp.colour = "RED"
             THEN "done" ELSE "prompt"

\* one pass of the loop body that ends in continue: the handler's result
ReplStore(S) ==
    /\ user_vars' = S.uv
    /\ screen_stack' = S.stack
    /\ session_history' = S.hist
    /\ in_case' = S.ic
    /\ pc' = "prompt"

\* calculator.py:168-170, EOFError or KeyboardInterrupt at the prompt
ReplInterrupt ==
    /\ ReplReads(EOF)
    /\ pc' = "done"
    /\ UNCHANGED <<user_vars, screen_stack, session_history, in_case,
                   nCase, nEndOk, opened>>

\* calculator.py:171-173
ReplTerminate(line) ==
    /\ ReplReads(line)
    /\ Classify(line) = "terminate"
    /\ pc' = "done"
    /\ UNCHANGED <<user_vars, screen_stack, session_history, in_case,
                   nCase, nEndOk, opened>>

ReplHelp(line) ==
    /\ ReplReads(line)
    /\ Classify(line) = "help"
    /\ ReplStore(DoHelp(line, ReplState))
    /\ UNCHANGED <<nCase, nEndOk, opened>>

ReplCls(line) ==
    /\ ReplReads(line)
    /\ Classify(line) = "cls"
    /\ ReplStore(DoCls(line, ReplState))
    /\ UNCHANGED <<nCase, nEndOk, opened>>

ReplCase(line) ==
    /\ ReplReads(line)
    /\ Classify(line) = "case"
    /\ ReplStore(DoCase(line, ReplState))
    /\ nCase' = nCase + 1
    /\ opened' = Append(opened, <<user_vars, session_history>>)
    /\ UNCHANGED nEndOk

ReplEndcase(line) ==
    /\ ReplReads(line)
    /\ Classify(line) = "endcase"
    /\ ReplStore(DoEndcase(line, ReplState))
    /\ IF screen_stack # <<>>
       THEN /\ nEndOk' = nEndOk + 1
            /\ opened' = SubSeq(opened, 1, Len(opened) - 1)
       ELSE UNCHANGED <<nEndOk, opened>>
    /\ UNCHANGED nCase

ReplAssign(line) ==
    /\ ReplReads(line)
    /\ Classify(line) = "assign"
    /\ ReplStore(DoAssign(line, ReplState))
    /\ UNCHANGED <<nCase, nEndOk, opened>>

ReplVarPrint(line) ==
    /\ ReplReads(line)
    /\ Classify(line) = "varprint"
    /\ ReplStore(DoVarPrint(line, ReplState))
    /\ UNCHANGED <<nCase, nEndOk, opened>>

ReplExpr(line) ==
    /\ ReplReads(line)
    /\ Classify(line) = "expr"
    /\ ReplStore(DoExpr(line, ReplState))
    /\ UNCHANGED <<nCase, nEndOk, opened>>

\* calculator_curses.py:308-316: the line the text box returns goes to
\* accept_and_eval; SystemExit breaks the loop, any other exception leaves
\* curses_repl, a return goes round the loop
PanelSubmit(cmd, P) ==
    /\ mode = "panel"
    /\ ppc = "loop"
    /\ nLines < MaxLines
    /\ lastLine' = cmd
    /\ nLines' = nLines + 1
    /\ p_user_vars' = P.uv
    /\ p_case_stack' = P.stack
    /\ p_session_history' = P.hist
    /\ ppc' = CASE P.exc = "None" -> "loop"
                [] P.exc = "SystemExit" -> "exited"
                [] OTHER -> "crashed"
    /\ UNCHANGED <<mode, replVars, nCase, nEndOk, opened, shot>>

PanelBlank(cmd) ==
    PClassify(cmd) = "blank" /\ PanelSubmit(cmd, PDoBlank(cmd, PanelState))
PanelQuit(cmd) ==
    PClassify(cmd) = "quit" /\ PanelSubmit(cmd, PDoQuit(cmd, PanelState))
PanelHelp(cmd) ==
    PClassify(cmd) = "help" /\ PanelSubmit(cmd, PDoHelp(cmd, PanelState))
PanelCls(cmd) ==
    PClassify(cmd) = "cls" /\ PanelSubmit(cmd, PDoCls(cmd, PanelState))
PanelCase(cmd) ==
    PClassify(cmd) = "case" /\ PanelSubmit(cmd, PDoCase(cmd, PanelState))
PanelEndcase(cmd) ==
    PClassify(cmd) = "endcase"
    /\ PanelSubmit(cmd, PDoEndcase(cmd, PanelState))
PanelAssign(cmd) ==
    PClassify(cmd) = "assign" /\ PanelSubmit(cmd, PDoAssign(cmd, PanelState))
PanelVarEcho(cmd) ==
    PClassify(cmd) = "varprint"
    /\ PanelSubmit(cmd, PDoVarEcho(cmd, PanelState))
PanelExpr(cmd) ==
    PClassify(cmd) = "expr" /\ PanelSubmit(cmd, PDoExpr(cmd, PanelState))

Next ==
    \/ ReplInterrupt
    \/ \E line \in Lines : ReplTerminate(line)
    \/ \E line \in Lines : ReplHelp(line)
    \/ \E line \in Lines : ReplCls(line)
    \/ \E line \in Lines : ReplCase(line)
    \/ \E line \in Lines : ReplEndcase(line)
    \/ \E line \in Lines : ReplAssign(line)
    \/ \E line \in Lines : ReplVarPrint(line)
    \/ \E line \in Lines : ReplExpr(line)
    \/ \E cmd \in Lines : PanelBlank(cmd)
    \/ \E cmd \in Lines : PanelQuit(cmd)
    \/ \E cmd \in Lines : PanelHelp(cmd)
    \/ \E cmd \in Lines : PanelCls(cmd)
    \/ \E cmd \in Lines : PanelCase(cmd)
    \/ \E cmd \in Lines : PanelEndcase(cmd)
    \/ \E cmd \in Lines : PanelAssign(cmd)
    \/ \E cmd \in Lines : PanelVarEcho(cmd)
    \/ \E cmd \in Lines : PanelExpr(cmd)

Spec == Init /\ [][Next]_vars

----------------------------------------------------------------------------
(* Both front ends on the same input *)

InitBoth ==
    /\ mode = "both"
    /\ pc = "prompt"
    /\ user_vars = EmptyDict
    /\ screen_stack = <<>>
    /\ session_history = <<>>
    /\ in_case = FALSE
    /\ ppc = "loop"
    /\ p_user_vars = EmptyDict
    /\ p_case_stack = <<>>
    /\ p_session_history = <<>>
    /\ lastLine = <<"<none>">>
    /\ nLines = 0
    /\ nCase = 0
    /\ nEndOk = 0
    /\ opened = <<>>
    /\ shot = ShotIdle

\* the same line typed into both programs
BothReads(line) ==
    /\ mode = "both"
    /\ pc = "prompt"
    /\ nLines < MaxLines
    /\ lastLine' = line
    /\ nLines' = nLines + 1
    /\ UNCHANGED <<mode, nCase, nEndOk, opened, shot>>

\* the panel takes the line too: P is what accept_and_eval leaves if the
\* input loop is still running; a panel that has ended takes no more lines
PanelTakes(P) ==
    /\ p_user_vars' = IF ppc = "loop" THEN P.uv ELSE p_user_vars
    /\ p_case_stack' = IF ppc = "loop" THEN P.stack ELSE p_case_stack
    /\ p_session_history' =
           IF ppc = "loop" THEN P.hist ELSE p_session_history
    /\ ppc' = IF ppc # "loop" THEN ppc
              ELSE CASE P.exc = "None" -> "loop"
                     [] P.exc = "SystemExit" -> "exited"
                     [] OTHER -> "crashed"

\* the line ends the line-prompt session
ReplEnds ==
    /\ pc' = "done"
    /\ UNCHANGED <<user_vars, screen_stack, session_history, in_case>>

BothBlank(line) ==
    /\ BothReads(line)
    /\ PClassify(line) = "blank"
    /\ ReplEnds
    /\ PanelTakes(PDoBlank(line, PanelState))

BothQuit(line) ==
    /\ BothReads(line)
    /\ PClassify(line) = "quit"
    /\ ReplEnds
    /\ PanelTakes(PDoQuit(line, PanelState))

BothHelp(line) ==
    /\ BothReads(line)
    /\ Classify(line) = "help"
    /\ ReplStore(DoHelp(line, ReplState))
    /\ PanelTakes(PDoHelp(line, PanelState))

BothCls(line) ==
    /\ BothReads(line)
    /\ Classify(line) = "cls"
    /\ ReplStore(DoCls(line, ReplState))
    /\ PanelTakes(PDoCls(line, PanelState))

BothCase(line) ==
    /\ BothReads(line)
    /\ Classify(line) = "case"
    /\ ReplStore(DoCase(line, ReplState))
    /\ PanelTakes(PDoCase(line, PanelState))

BothEndcase(line) ==
    /\ BothReads(line)
    /\ Classify(line) = "endcase"
    /\ ReplStore(DoEndcase(line, ReplState))
    /\ PanelTakes(PDoEndcase(line, PanelState))

BothAssign(line) ==
    /\ BothReads(line)
    /\ Classify(line) = "assign"
    /\ ReplStore(DoAssign(line, ReplState))
    /\ PanelTakes(PDoAssign(line, PanelState))

BothVarPrint(line) ==
    /\ BothReads(line)
    /\ Classify(line) = "varprint"
    /\ ReplStore(DoVarPrint(line, ReplState))
    /\ PanelTakes(PDoVarEcho(line, PanelState))

BothExpr(line) ==
    /\ BothReads(line)
    /\ Classify(line) = "expr"
    /\ ReplStore(DoExpr(line, ReplState))
    /\ PanelTakes(PDoExpr(line, PanelState))

NextBoth ==
    \/ \E line \in Lines : BothBlank(line)
    \/ \E line \in Lines : BothQuit(line)
    \/ \E line \in Lines : BothHelp(line)
    \/ \E line \in Lines : BothCls(line)
    \/ \E line \in Lines : BothCase(line)
    \/ \E line \in Lines : BothEndcase(line)
    \/ \E line \in Lines : BothAssign(line)
    \/ \E line \in Lines : BothVarPrint(line)
    \/ \E line \in Lines : BothExpr(line)

SpecBoth == InitBoth /\ [][NextBoth]_vars

----------------------------------------------------------------------------
(* Sessions that use factor calls, percent literals and command words *)

CalcLines ==
    { <<"P_F", "(", "5", ",", "3", ")">>,
      <<"P_F", "(", "5", "%", ",", "3", ")">>,
      <<"p_f", "(", "5", ",", "3", ")">>,
      <<"A_P", "(", "0", "%", ",", "0", ")">>,
      <<"5", "%", "+", "10">>,
      <<"x", "=", "5">>, <<"x">>,
      <<"help", "=", "5">>, <<"help">>, <<"help", "+", "1">>,
      <<"quit", "=", "5">>, <<"quit">> }

NextCalc ==
    \/ \E line \in CalcLines : ReplTerminate(line)
    \/ \E line \in CalcLines : ReplHelp(line)
    \/ \E line \in CalcLines : ReplAssign(line)
    \/ \E line \in CalcLines : ReplVarPrint(line)
    \/ \E line \in CalcLines : ReplExpr(line)
    \/ \E cmd \in CalcLines : PanelQuit(cmd)
    \/ \E cmd \in CalcLines : PanelHelp(cmd)
    \/ \E cmd \in CalcLines : PanelAssign(cmd)
    \/ \E cmd \in CalcLines : PanelVarEcho(cmd)
    \/ \E cmd \in CalcLines : PanelExpr(cmd)

SpecCalc == Init /\ [][NextCalc]_vars

----------------------------------------------------------------------------
(* One-shot mode: the script started with an expression as its arguments *)

\* the largest n the arguments name
MaxN == 3

\* the rates the arguments name, as [-+]?\d+(\.\d+)? texts
RateTexts == {"0", "5", "50", "100", "-50", "-100", "-200"}

\* float(m.group('i'))
RateValue(t) ==
    CASE t = "0" -> FloatVal(0, 1)
      [] t = "5" -> FloatVal(5, 1)
      [] t = "50" -> FloatVal(50, 1)
      [] t = "100" -> FloatVal(100, 1)
      [] t = "-50" -> FloatVal(-50, 1)
      [] t = "-100" -> FloatVal(-100, 1)
      [] t = "-200" -> FloatVal(-200, 1)

\* \d+ texts of the arguments
NTexts == {ToString(k) : k \in 0..MaxN}

\* int(m.group('n'))
IntOf(t) == CHOOSE k \in 0..MaxN : ToString(k) = t

\* " ".join(sys.argv[1:]) of the runs
ShotArgs ==
    {<<f, "(", r, ",", n, ")">> :
        f \in FactorNames \cup {"p_f", "X_Y"}, r \in RateTexts, n \in NTexts}
    \cup
    {<<f, "(", r, "%", ",", n, ")">> :
        f \in FactorNames \cup {"p_f", "X_Y"}, r \in RateTexts, n \in NTexts}
    \cup
    { <<"5", "%", "+", "10">>, <<"x">>, <<"P_F", "(", "5", ")">> }

\* calculator.py:106-114, CALL_RE.match(line)
CallMatch(toks) ==
    /\ Len(toks) \in {6, 7}
    /\ FactorShaped(toks[1])
    /\ toks[2] = "("
    /\ toks[3] \in RateTexts
    /\ Len(toks) = 7 => toks[4] = "%"
    /\ toks[Len(toks) - 2] = ","
    /\ toks[Len(toks) - 1] \in NTexts
    /\ toks[Len(toks)] = ")"

\* calculator.py:104
FACTOR_ALIASES ==
    [k \in {Lower(f) : f \in FactorNames} |->
        CHOOSE f \in FactorNames : Lower(f) = k]

Parsed(key, i, n) == [ok |-> TRUE, key |-> key, i |-> i, n |-> n, err |-> ""]
ValueError(msg) ==
    [ok |-> FALSE, key |-> "", i |-> FloatVal(0, 1), n |-> 0, err |-> msg]

\* parse_line evaluating a factor name it does not know as P_F
parse_line_AnyFactor(toks) ==
    IF ~CallMatch(toks)
    THEN ValueError("Could not parse. Expected like: A_P(2.5%, 10)")
    ELSE LET factor == toks[1]
             i == QMul(RateValue(toks[3]), FloatVal(1, 100))
             n == IntOf(toks[Len(toks) - 1])
         IN  IF Lower(factor) \notin DOMAIN FACTOR_ALIASES
             THEN Parsed("P_F", i, n)
             ELSE Parsed(FACTOR_ALIASES[Lower(factor)], i, n)

\* calculator.py:116-128
parse_line(toks) ==
    IF ~CallMatch(toks)
    THEN ValueError("Could not parse. Expected like: A_P(2.5%, 10)")
    ELSE LET factor == toks[1]
             i == QMul(RateValue(toks[3]), FloatVal(1, 100))
             n == IntOf(toks[Len(toks) - 1])
         IN  IF Lower(factor) \notin DOMAIN FACTOR_ALIASES
             THEN ValueError("Unknown factor '" \o factor
                             \o "'. Try one of: F_P, P_F, P_A, A_P, "
                             \o "F_A, A_F, A_G, P_G")
             ELSE Parsed(FACTOR_ALIASES[Lower(factor)], i, n)

\* calculator.py:130-133: name, i, n and val, or the exception raised
evaluate(expr) ==
    LET p == parse_line(expr)
    IN  IF ~p.ok THEN [p |-> p, r |-> Raise(p.err)]
        ELSE [p |-> p, r |-> FACTOR_FUNCS(p.key, p.i, p.n)]

InitShot ==
    /\ mode = "shot"
    /\ pc = "prompt"
    /\ user_vars = EmptyDict
    /\ screen_stack = <<>>
    /\ session_history = <<>>
    /\ in_case = FALSE
    /\ ppc = "loop"
    /\ p_user_vars = EmptyDict
    /\ p_case_stack = <<>>
    /\ p_session_history = <<>>
    /\ lastLine = <<"<none>">>
    /\ nLines = 0
    /\ nCase = 0
    /\ nEndOk = 0
    /\ opened = <<>>
    /\ \E a \in ShotArgs :
          shot = [phase |-> "start", argv |-> a, code |-> 0, out |-> NoPrint]

\* calculator.py:270-272, the try block runs through: the success line is
\* printed and the script ends
ShotOk ==
    /\ mode = "shot"
    /\ shot.phase = "start"
    /\ LET e == evaluate(shot.argv)
       IN  /\ e.r.ok
           /\ shot' = [shot EXCEPT
                  !.phase = "done",
                  !.out = ShotOut(e.p.key, QMul(e.p.i, FloatVal(100, 1)),
                                  e.p.n, e.r.val, "")]
    /\ UNCHANGED <<mode, replVars, panelVars, lastLine, nLines, nCase,
                   nEndOk, opened>>

\* calculator.py:273-275, evaluate raised: the error line is printed and
\* sys.exit(1) ends the script
ShotError ==
    /\ mode = "shot"
    /\ shot.phase = "start"
    /\ LET e == evaluate(shot.argv)
       IN  /\ ~e.r.ok
           /\ shot' = [shot EXCEPT
                  !.phase = "done",
                  !.code = 1,
                  !.out = ShotOut("", FloatVal(0, 1), 0, FloatVal(0, 1),
                                  e.r.err)]
    /\ UNCHANGED <<mode, replVars, panelVars, lastLine, nLines, nCase,
                   nEndOk, opened>>

NextShot == ShotOk \/ ShotError

SpecShot == InitShot /\ [][NextShot]_vars

----------------------------------------------------------------------------
(* Vocabulary of the properties *)

Last(seq) == seq[Len(seq)]
Front(seq) == SubSeq(seq, 1, Len(seq) - 1)

\* this step is the line-prompt session processing a line of the kind
ReplStep(kind) ==
    /\ mode = "repl" /\ pc = "prompt"
    /\ nLines' = nLines + 1
    /\ lastLine' # EOF
    /\ Classify(lastLine') = kind

\* this step is the panel session submitting a line of the kind
PanelStep(kind) ==
    /\ mode = "panel" /\ ppc = "loop"
    /\ nLines' = nLines + 1
    /\ PClassify(lastLine') = kind

\* the step appended exactly one entry to the current transcript
AppendedOne ==
    /\ Len(session_history') = Len(session_history) + 1
    /\ Front(session_history') = session_history
    /\ Last(session_history').inp = lastLine'

\* the text the line hands to eval: the right-hand side or the whole line
EvalText(line) ==
    IF AssignMatch(line) THEN SubSeq(line, 3, Len(line)) ELSE line

\* the names an evaluated text looks up
NamesOf(toks) == {toks[j] : j \in {i \in 1..Len(toks) : IsIdent(toks[i])}}

\* the text is an expression eval compiles
WellFormed(toks) ==
    LET lxs == PercentSub(toks)
    IN  \/ Len(lxs) = 1 /\ lxs[1].k # "op"
        \/ /\ Len(lxs) = 3 /\ lxs[1].k # "op" /\ lxs[3].k # "op"
           /\ lxs[2].s \in {"+", "/"}
        \/ /\ Len(lxs) = 6
           /\ lxs[1].k = "id" /\ lxs[3].k # "op" /\ lxs[5].k # "op"
           /\ lxs[2].s = "(" /\ lxs[4].s = "," /\ lxs[6].s = ")"

NotFoundOut(name) ==
    Out("RED", <<"Variable '", name, "' not found in current scope.">>)

NameErrorText(name) == "name '" \o name \o "' is not defined"

----------------------------------------------------------------------------
(* C1 *)

\* C1: when the line-prompt session processes endcase with a non-empty
\* scope stack, the variable mapping becomes the mapping that was current
\* just before the matching case, the transcript becomes the transcript of
\* that moment followed by one confirmation entry, and one frame is popped,
\* at every nesting depth.
C1_EndcaseRestores ==
    [][ (ReplStep("endcase") /\ screen_stack # <<>>) =>
            /\ opened # <<>>
            /\ user_vars' = Last(opened)[1]
            /\ session_history' =
                   Append(Last(opened)[2], Entry(lastLine', CaseEndedOut))
            /\ screen_stack' = Front(screen_stack) ]_vars

\* an endcase at depth 2 gave back the empty mapping of the outer case
\* while the root frame, still stacked, binds a variable
C1_Witness ==
    /\ mode = "repl"
    /\ lastLine = <<"endcase">>
    /\ nEndOk = 1
    /\ Len(screen_stack) = 1
    /\ user_vars = EmptyDict
    /\ DOMAIN screen_stack[1][1] # {}
    /\ Len(session_history) = 2

----------------------------------------------------------------------------
(* C2 *)

\* after case the mapping is empty
C2_CaseEmpties == ReplStep("case") => user_vars' = EmptyDict

\* inside a case a bare name that the scope does not bind is not found
C2_QueryFails ==
    (/\ ReplStep("varprint") /\ screen_stack # <<>>
     /\ lastLine'[1] \notin DOMAIN user_vars)
    => /\ AppendedOne
       /\ Last(session_history').outp = NotFoundOut(lastLine'[1])

\* inside a case an evaluated line that uses a name of the set, which the
\* scope does not bind, ends in the name error of such a name
C2_UseFails(names) ==
    LET line == lastLine'
    IN  (/\ (ReplStep("assign") \/ ReplStep("expr"))
         /\ screen_stack # <<>>
         /\ WellFormed(EvalText(line))
         /\ (NamesOf(EvalText(line)) \cap names) \ DOMAIN user_vars # {})
        => /\ AppendedOne
           /\ user_vars' = user_vars
           /\ Last(session_history').outp.colour = "RED"
           /\ \E v \in NamesOf(EvalText(line)) \ DOMAIN user_vars :
                  Last(Last(session_history').outp.text) = NameErrorText(v)

AllNames == {t \in UNION {NamesOf(l) : l \in Lines} : TRUE}

\* C2 as claimed: after case the mapping is empty and, inside a case, every
\* lookup of a name the scope has not assigned fails as unbound.
C2_Original ==
    [][ C2_CaseEmpties /\ C2_QueryFails /\ C2_UseFails(AllNames) ]_vars

\* inside a case a name of the evaluation environment that the scope does
\* not bind evaluates to the environment's entry
C2_EnvironmentName ==
    LET line == lastLine'
    IN  (/\ ReplStep("assign")
         /\ screen_stack # <<>>
         /\ Len(EvalText(line)) = 1
         /\ line[3] \in (DOMAIN Builtins) \ DOMAIN user_vars)
        => user_vars' = DictSet(user_vars, line[1], Builtins[line[3]])

\* C2 (amended): after case the mapping is empty; inside a case a bare
\* query of a name the scope has not assigned is not found, a use of such a
\* name in a well-formed expression or right-hand side fails as unbound
\* unless the name is an entry of the evaluation environment, and then it
\* evaluates to that entry; no lookup reads a frame of the stack.
C2_Isolation ==
    [][ /\ C2_CaseEmpties
        /\ C2_QueryFails
        /\ C2_UseFails(AllNames \ DOMAIN Builtins)
        /\ C2_EnvironmentName ]_vars

\* x is bound in the root frame and its use inside the case failed
C2_Witness ==
    /\ mode = "repl"
    /\ Len(screen_stack) = 1
    /\ "x" \in DOMAIN screen_stack[1][1]
    /\ lastLine = <<"x", "=", "x", "+", "1">>
    /\ user_vars = EmptyDict
    /\ Last(session_history).outp =
           Out("RED", <<"Error in assignment: ", NameErrorText("x")>>)

----------------------------------------------------------------------------
(* C3 *)

\* line-prompt session: endcase on an empty stack appends the one error
\* entry and changes nothing else
C3_Repl ==
    (ReplStep("endcase") /\ screen_stack = <<>>) =>
        /\ session_history' =
               Append(session_history, Entry(lastLine', NoCaseOut))
        /\ user_vars' = user_vars
        /\ screen_stack' = <<>>
        /\ in_case' = in_case
        /\ pc' = "prompt"

\* panel session: the same
C3_Panel ==
    (PanelStep("endcase") /\ p_case_stack = <<>>) =>
        /\ p_session_history' =
               Append(p_session_history,
                      PEntry(lastLine', <<"No case to end.">>, TRUE))
        /\ p_user_vars' = p_user_vars
        /\ p_case_stack' = <<>>
        /\ ppc' = "loop"

\* C3: endcase submitted while the scope stack is empty is a non-fatal
\* error: it appends exactly one error entry "No case to end.", leaves the
\* variable mapping, the empty stack and the earlier entries unchanged, and
\* the session goes on with the state it had, in both front ends.
C3_NoCaseToEnd == [][ C3_Repl /\ C3_Panel ]_vars

----------------------------------------------------------------------------
(* C4 *)

\* C4: in the line-prompt session the depth of the scope stack is the
\* number of case lines minus the number of endcase lines that found a
\* non-empty stack, it is never negative, and the frames on the stack are
\* the enclosing scopes as they were left, the root scope at the bottom.
C4_StackDepth ==
    mode = "repl" =>
        /\ Len(screen_stack) = nCase - nEndOk
        /\ nCase - nEndOk >= 0
        /\ screen_stack = opened

\* C4, the steps: the root scope is never popped (endcase at depth 0 leaves
\* mapping and stack), and every line other than case and endcase works on
\* the innermost open scope and leaves the stack alone.
C4_RootKept ==
    [][ /\ (ReplStep("endcase") /\ nCase - nEndOk = 0) =>
                user_vars' = user_vars /\ screen_stack' = <<>>
        /\ (mode = "repl" /\ nLines' = nLines + 1
            /\ (lastLine' = EOF
                \/ Classify(lastLine') \notin {"case", "endcase"})) =>
                screen_stack' = screen_stack ]_vars

\* both parts of C4
C4_ScopeStack == []C4_StackDepth /\ C4_RootKept

\* two cases and one popping endcase after a refused endcase
C4_Witness ==
    /\ mode = "repl"
    /\ nCase = 2 /\ nEndOk = 1
    /\ Len(screen_stack) = 1
    /\ Len(screen_stack[1][2]) = 1
    /\ screen_stack[1][2][1].outp = NoCaseOut

----------------------------------------------------------------------------
(* C5 *)

\* C5: cls empties the transcript of the current scope and leaves the
\* variable mapping and the scope stack, with every saved frame, unchanged.
C5_ClsFrame ==
    [][ /\ ReplStep("cls") =>
              /\ session_history' = <<>>
              /\ user_vars' = user_vars
              /\ screen_stack' = screen_stack
        /\ PanelStep("cls") =>
              /\ p_session_history' = <<>>
              /\ p_user_vars' = p_user_vars
              /\ p_case_stack' = p_case_stack ]_vars

\* cls inside a case whose scope binds a variable, below it a frame with a
\* saved transcript
C5_Witness ==
    /\ mode = "repl"
    /\ lastLine = <<"cls">>
    /\ session_history = <<>>
    /\ DOMAIN user_vars # {}
    /\ Len(screen_stack) = 1
    /\ screen_stack[1][2] # <<>>

----------------------------------------------------------------------------
(* C6 *)

\* C6: in the line-prompt session help, assignment, bare identifier,
\* expression and endcase on an empty stack append exactly one entry whose
\* input is the line; after case the transcript holds exactly one entry;
\* after a popping endcase the restored transcript has grown by one entry.
C6_OneEntry ==
    [][ /\ (\/ ReplStep("help") \/ ReplStep("assign")
            \/ ReplStep("varprint") \/ ReplStep("expr")
            \/ (ReplStep("endcase") /\ screen_stack = <<>>)) => AppendedOne
        /\ ReplStep("case") =>
               /\ Len(session_history') = 1
               /\ session_history'[1].inp = lastLine'
        /\ (ReplStep("endcase") /\ screen_stack # <<>>) =>
               /\ Len(session_history') = Len(Last(screen_stack)[2]) + 1
               /\ Front(session_history') = Last(screen_stack)[2]
               /\ Last(session_history').inp = lastLine' ]_vars

\* a failed expression, a failed assignment and a query of an unbound name
\* each left one entry
C6_Witness ==
    /\ mode = "repl"
    /\ Len(session_history) = 3
    /\ \A i \in 1..3 : session_history[i].outp.colour = "RED"
    /\ \E i, j, k \in 1..3 :
          /\ Classify(session_history[i].inp) = "assign"
          /\ Classify(session_history[j].inp) = "varprint"
          /\ Classify(session_history[k].inp) = "expr"

----------------------------------------------------------------------------
(* C7 *)

\* line-prompt session: a successful assignment stores the value in the
\* current mapping only and appends an entry without output; a failed one
\* appends one "Error in assignment: " entry and leaves the mapping
C7_Repl ==
    LET line == lastLine'
    IN  ReplStep("assign") =>
            LET r == Evaluate(EvalText(line), user_vars)
            IN  /\ screen_stack' = screen_stack
                /\ pc' = "prompt"
                /\ IF r.ok
                   THEN /\ user_vars' = DictSet(user_vars, line[1], r.val)
                        /\ session_history' =
                               Append(session_history, Entry(line, NoOutput))
                   ELSE /\ user_vars' = user_vars
                        /\ AppendedOne
                        /\ Last(session_history').outp.colour = "RED"
                        /\ Last(session_history').outp.text[1] =
                               "Error in assignment: "

\* panel session: the same
C7_Panel ==
    LET line == lastLine'
    IN  PanelStep("assign") =>
            LET r == PanelEvaluate(EvalText(line), p_user_vars)
            IN  /\ p_case_stack' = p_case_stack
                /\ ppc' = "loop"
                /\ Len(p_session_history') = Len(p_session_history) + 1
                /\ Front(p_session_history') = p_session_history
                /\ Last(p_session_history').inp = line
                /\ IF r.ok
                   THEN /\ p_user_vars' = DictSet(p_user_vars, line[1], r.val)
                        /\ Last(p_session_history').outp = <<>>
                   ELSE /\ p_user_vars' = p_user_vars
                        /\ Last(p_session_history').is_err
                        /\ Last(p_session_history').outp[1] =
                               "Error in assignment: "

\* C7: an assignment whose right-hand side evaluates stores the value under
\* the identifier in the current scope only and appends an entry with no
\* output; one whose right-hand side fails appends one error entry prefixed
\* "Error in assignment: " and leaves the variable mapping as it was; in
\* both front ends.
C7_Assignment == [][ C7_Repl /\ C7_Panel ]_vars

----------------------------------------------------------------------------
(* C8 *)

\* line-prompt session: blank, quit and exit end the read loop and append
\* nothing
C8_Repl ==
    (mode = "repl" /\ pc = "prompt" /\ nLines' = nLines + 1
     /\ LineLower(lastLine') \in {"", "quit", "exit"})
    => /\ pc' = "done"
       /\ session_history' = session_history
       /\ user_vars' = user_vars
       /\ screen_stack' = screen_stack

\* panel session: the lines of the set leave the input loop through the
\* break of the SystemExit handler and append nothing
C8_Panel(words) ==
    (mode = "panel" /\ ppc = "loop" /\ nLines' = nLines + 1
     /\ LineLower(lastLine') \in words)
    => /\ ppc' = "exited"
       /\ p_session_history' = p_session_history

----------------------------------------------------------------------------
(* C9 *)

\* the entries that report an error
IsErrorEntry(e) == e.outp.colour = "RED"

\* the line fails: its evaluation raises, it queries an unbound name, or it
\* is endcase with nothing to end
Fails(line) ==
    CASE Classify(line) \in {"assign", "expr"} ->
             ~Evaluate(EvalText(line), user_vars).ok
      [] Classify(line) = "varprint" -> line[1] \notin DOMAIN user_vars
      [] Classify(line) = "endcase" -> screen_stack = <<>>
      [] OTHER -> FALSE

\* C9: in the line-prompt session every line that is not blank, quit or
\* exit leaves the read loop running, a line that fails leaves exactly one
\* error entry, and the loop ends only on a blank line, quit, exit or an
\* interrupt or end of input at the prompt.
C9_ErrorsRecovered ==
    [][ /\ (/\ mode = "repl" /\ pc = "prompt" /\ nLines' = nLines + 1
            /\ lastLine' # EOF /\ Classify(lastLine') # "terminate")
           => /\ pc' = "prompt"
              /\ Fails(lastLine') =>
                     AppendedOne /\ IsErrorEntry(Last(session_history'))
        /\ (mode = "repl" /\ pc = "prompt" /\ pc' = "done") =>
              \/ lastLine' = EOF
              \/ LineLower(lastLine') \in {"", "quit", "exit"} ]_vars

\* a division by zero, a malformed expression and an endcase with nothing
\* to end, and the loop still reads
C9_Witness ==
    /\ mode = "repl"
    /\ pc = "prompt"
    /\ Len(session_history) = 3
    /\ session_history[1].outp = Out("RED", <<"Error: ", "division by zero">>)
    /\ session_history[2].inp = <<"1", "+">>
    /\ IsErrorEntry(session_history[2])
    /\ session_history[3].outp = NoCaseOut

----------------------------------------------------------------------------
(* C10 *)

\* C10: in the panel variant accept_and_eval returns normally for every
\* submitted line other than quit and exit, so the input loop goes on to
\* the next line; the loop is left only through the SystemExit of quit and
\* exit.
C10_PanelContinues ==
    [][ /\ (mode = "panel" /\ ppc = "loop" /\ nLines' = nLines + 1
            /\ LineLower(lastLine') \notin {"quit", "exit"}) => ppc' = "loop"
        /\ (mode = "panel" /\ ppc = "loop" /\ ppc' # "loop") =>
               LineLower(lastLine') \in {"quit", "exit"} ]_vars

----------------------------------------------------------------------------
(* C18 *)

\* C18: in the line-prompt session the in_case flag is true exactly when
\* the scope stack is non-empty, after every line; after case, case,
\* endcase the session is still in a case.
C18_FlagMatchesStack ==
    mode = "repl" => (in_case <=> screen_stack # <<>>)

----------------------------------------------------------------------------
(* C19 *)

Min(a, b) == IF a < b THEN a ELSE b

\* C19: a frame pushed by case is not changed by any later line while it
\* is on the stack: every step leaves the saved mapping and the saved
\* transcript of every frame that stays on the stack as they were, in both
\* front ends.
C19_FramesFrozen ==
    [][ /\ \A k \in 1..Min(Len(screen_stack), Len(screen_stack')) :
               screen_stack'[k] = screen_stack[k]
        /\ \A k \in 1..Min(Len(p_case_stack), Len(p_case_stack')) :
               p_case_stack'[k] = p_case_stack[k] ]_vars

\* inside a case a variable was bound and the transcript grew, and the
\* frame below still holds the root scope's binding and transcript
C19_Witness ==
    /\ mode = "repl"
    /\ Len(screen_stack) = 1
    /\ DOMAIN screen_stack[1][1] = {"x"}
    /\ Len(screen_stack[1][2]) = 1
    /\ DOMAIN user_vars = {"y"}
    /\ Len(session_history) = 2

----------------------------------------------------------------------------
(* C11 *)

\* the panel transcript has the entries of the line-prompt transcript: same
\* input, same text, same error status
SameTranscript(h, ph) ==
    /\ Len(h) = Len(ph)
    /\ \A i \in 1..Min(Len(h), Len(ph)) :
          /\ h[i].inp = ph[i].inp
          /\ h[i].outp.text = ph[i].outp
          /\ (h[i].outp.colour = "RED") <=> ph[i].is_err

\* C11: fed the same lines, the two front ends are, after each line, both
\* running or both ended, with the same variable mapping, the same
\* scope-stack depth and saved frames, and transcripts with the same
\* entries.
C11_SameSession ==
    mode = "both" =>
        /\ (pc = "prompt") <=> (ppc = "loop")
        /\ user_vars = p_user_vars
        /\ Len(screen_stack) = Len(p_case_stack)
        /\ \A k \in 1..Min(Len(screen_stack), Len(p_case_stack)) :
              /\ screen_stack[k][1] = p_case_stack[k][1]
              /\ SameTranscript(screen_stack[k][2], p_case_stack[k][2])
        /\ SameTranscript(session_history, p_session_history)

----------------------------------------------------------------------------
(* C12 *)

\* C12: a line in factor-call syntax submitted to the line-prompt session
\* is answered with the value parse_line and evaluate give for that text:
\* the factor name in any case, the first argument as a percentage with or
\* without the % sign.
C12_FactorCallLines ==
    [][ (/\ mode = "repl" /\ pc = "prompt" /\ nLines' = nLines + 1
         /\ CallMatch(lastLine') /\ evaluate(lastLine').r.ok)
        => /\ AppendedOne
           /\ Last(session_history').outp =
                  Out("GREEN", <<"Result: ",
                                 PyStr(evaluate(lastLine').r.val)>>) ]_vars

----------------------------------------------------------------------------
(* C13 *)

PercentLine == <<"5", "%", "+", "10">>

\* the line 5% + 10 is answered with the text, in the line-prompt session,
\* and evaluates to the value, in the panel's evaluate
PercentLineGives(text, value) ==
    /\ (/\ mode = "repl" /\ pc = "prompt" /\ nLines' = nLines + 1
        /\ lastLine' = PercentLine)
       => /\ AppendedOne
          /\ Last(session_history').outp = Out("GREEN", <<"Result: ", text>>)
    /\ (PanelStep("expr") /\ lastLine' = PercentLine)
       => PanelEvaluate(lastLine', p_user_vars) = Ok(value)

\* the claim as stated: 5% + 10 evaluates to 0.15
C13_Original == [][PercentLineGives("0.15", FloatVal(3, 20))]_vars

\* C13: the expression line 5% + 10 evaluates to 10.05: the literal
\* followed by % is divided by 100 and becomes the float 0.05, the literal
\* 10 without % stays the int 10.
C13_PercentLiteral ==
    [][ /\ PercentLineGives("10.05", FloatVal(201, 20))
        /\ (nLines' = nLines + 1 /\ lastLine' = PercentLine)
           => /\ PercentSub(lastLine')[1].v = FloatVal(1, 20)
              /\ PercentSub(lastLine')[3].v = IntVal(10) ]_vars

\* the line-prompt session has answered 5% + 10
C13_Witness ==
    /\ mode = "repl"
    /\ Len(session_history) = 1
    /\ session_history[1].inp = PercentLine
    /\ session_history[1].outp.colour = "GREEN"

----------------------------------------------------------------------------
(* C16 *)

\* in the line-prompt session: the line x = 5 binds x to the value, and a
\* bare x that finds x bound to the value is answered with the text
RoundTrip(value, text) ==
    /\ (ReplStep("assign") /\ lastLine' = <<"x", "=", "5">>)
       => /\ "x" \in DOMAIN user_vars'
          /\ user_vars'["x"] = value
    /\ (/\ ReplStep("varprint") /\ lastLine' = <<"x">>
        /\ "x" \in DOMAIN user_vars /\ user_vars["x"] = IntVal(5))
       => /\ AppendedOne
          /\ Last(session_history').outp = Out("CYAN", <<"x", " = ", text>>)

----------------------------------------------------------------------------
(* C20 *)

CommandWords == {"help", "cls", "case", "endcase", "quit", "exit"}

\* C20: in both front ends an assignment to a command word succeeds: the
\* name is bound and the session goes on; a bare line made of a command
\* word is handled as the command, bound or not; an expression that uses
\* the name sees the binding.
C20_CommandPriority ==
    [][ /\ (/\ ReplStep("assign") /\ Lower(lastLine'[1]) \in CommandWords
            /\ Evaluate(EvalText(lastLine'), user_vars).ok)
           => /\ lastLine'[1] \in DOMAIN user_vars'
              /\ Last(session_history').outp = NoOutput
              /\ pc' = "prompt"
        /\ (/\ PanelStep("assign") /\ Lower(lastLine'[1]) \in CommandWords
            /\ PanelEvaluate(EvalText(lastLine'), p_user_vars).ok)
           => /\ lastLine'[1] \in DOMAIN p_user_vars'
              /\ ppc' = "loop"
        /\ (/\ mode = "repl" /\ pc = "prompt" /\ nLines' = nLines + 1
            /\ lastLine' = <<"help">>)
           => Last(session_history').outp = HelpOut
        /\ (/\ mode = "repl" /\ pc = "prompt" /\ nLines' = nLines + 1
            /\ lastLine' = <<"quit">>)
           => pc' = "done" /\ session_history' = session_history
        /\ (/\ ReplStep("expr") /\ lastLine' = <<"help", "+", "1">>
            /\ "help" \in DOMAIN user_vars /\ user_vars["help"] = IntVal(5))
           => Last(session_history').outp = Out("GREEN", <<"Result: ", "6">>)
      ]_vars

----------------------------------------------------------------------------
(* C17 *)

\* the arguments name one of the eight factors, in any case
KnownFactor(a) == Lower(a[1]) \in DOMAIN FACTOR_ALIASES

\* what the arguments ask for, when they have the shape of a factor call
\* and name a factor
ArgKey(a) == FACTOR_ALIASES[Lower(a[1])]
ArgRate(a) == QMul(RateValue(a[3]), FloatVal(1, 100))
ArgN(a) == IntOf(a[Len(a) - 1])
ArgValue(a) == FACTOR_FUNCS(ArgKey(a), ArgRate(a), ArgN(a))

\* C17: the one-shot run ends with a non-zero exit code exactly when the
\* arguments are not in factor-call shape, name no factor, or the factor
\* function raises; otherwise it prints the factor, the rate, n and the
\* value and ends normally; an unknown factor name is reported as an error
\* and nothing is evaluated for it.
C17_OneShotExit ==
    (mode = "shot" /\ shot.phase = "done") =>
        LET a == shot.argv
            failed == \/ ~CallMatch(a)
                      \/ ~KnownFactor(a)
                      \/ ~ArgValue(a).ok
        IN  /\ shot.code # 0 <=> failed
            /\ shot.code \in {0, 1}
            /\ shot.code = 0 =>
                  /\ shot.out.name = ArgKey(a)
                  /\ shot.out.rate = RateValue(a[3])
                  /\ shot.out.n = ArgN(a)
                  /\ shot.out.val = ArgValue(a).val
                  /\ shot.out.err = ""
            /\ shot.code # 0 =>
                  /\ shot.out.err # ""
                  /\ shot.out.val = NoPrint.val
            /\ (CallMatch(a) /\ ~KnownFactor(a)) =>
                  /\ shot.code = 1
                  /\ shot.out.err = parse_line(a).err

\* a run whose factor function divided by zero
C17_Witness ==
    /\ shot.phase = "done"
    /\ shot.argv = <<"A_P", "(", "-200", ",", "2", ")">>
    /\ shot.code = 1
    /\ shot.out.err = "float division by zero"

----------------------------------------------------------------------------
(* C15 *)

\* the documented value of the factor at rate zero, n >= 1
ZeroLimit(key, n) ==
    CASE key \in {"F_P", "P_F"} -> One
      [] key \in {"P_A", "F_A"} -> FloatVal(n, 1)
      [] key \in {"A_P", "A_F"} -> Frac(1, n)
      [] key = "A_G" -> Frac(n - 1, 2)
      [] key = "P_G" -> QMul(Frac(n - 1, 2), FloatVal(n, 1))

\* C15: at rate zero no factor raises for any n >= 0; for n >= 1 each
\* factor returns its documented limit; for n = 0, A_P and A_F return
\* +infinity as a value, and the line A_P(0%, 0) yields +infinity.
C15_ZeroRate ==
    /\ Evaluate(<<"A_P", "(", "0", "%", ",", "0", ")">>, EmptyDict) = Ok(Inf)
    /\ (/\ mode = "shot" /\ shot.phase = "done"
        /\ CallMatch(shot.argv) /\ KnownFactor(shot.argv)
        /\ ArgRate(shot.argv).n = 0)
       => /\ shot.code = 0
          /\ ArgN(shot.argv) >= 1 =>
                shot.out.val = ZeroLimit(ArgKey(shot.argv), ArgN(shot.argv))
          /\ (ArgN(shot.argv) = 0 /\ ArgKey(shot.argv) \in {"A_P", "A_F"}) =>
                shot.out.val = Inf

\* the run of A_P(0%, 0) printed +infinity and ended normally
C15_Witness ==
    /\ shot.phase = "done"
    /\ shot.argv = <<"A_P", "(", "0", "%", ",", "0", ")">>
    /\ shot.code = 0
    /\ shot.out.val = Inf

----------------------------------------------------------------------------
(* C14 *)

\* the run evaluated A_P at a rate other than zero with n >= 1
RanA_P ==
    /\ mode = "shot" /\ shot.phase = "done"
    /\ CallMatch(shot.argv) /\ KnownFactor(shot.argv)
    /\ ArgKey(shot.argv) = "A_P"
    /\ ArgRate(shot.argv).n # 0
    /\ ArgN(shot.argv) >= 1

\* A_P returned a value and that value times P_A of the same arguments is 1
Reciprocal ==
    /\ shot.code = 0
    /\ P_A(ArgRate(shot.argv), ArgN(shot.argv)).ok
    /\ QMul(shot.out.val, P_A(ArgRate(shot.argv), ArgN(shot.argv)).val) = One

====
